---- MODULE Spec2Model ----
(***************************************************************************)
(* Model of glide-core/src/client/mod.rs: the Client facade that sends a   *)
(* command or a pipeline to a standalone or a cluster connection, under a  *)
(* request timeout, and converts the raw reply to the type the command is  *)
(* expected to return.                                                     *)
(***************************************************************************)
EXTENDS Integers, Sequences, FiniteSets

VARIABLES request, client, pc, call, reply, result, elapsed, abandoned, errors_seen

vars == <<request, client, pc, call, reply, result, elapsed, abandoned, errors_seen>>

(* ---------------------------- bounds ----------------------------------- *)
\* longest pipeline (number of commands); a caller asks for at most one value
\* more than that
MaxPipeline == 2
\* longest flat array a connection returns for a single command
MaxArray == 4

(* ------------------------- redis::Value -------------------------------- *)
\* Every value has the same four fields, so that any two values compare.
Nil == [tag |-> "Nil", n |-> 0, s |-> "", items |-> <<>>]
IntValue(i) == [tag |-> "Int", n |-> i, s |-> "", items |-> <<>>]
BulkString(str) == [tag |-> "BulkString", n |-> 0, s |-> str, items |-> <<>>]
Okay == [tag |-> "Okay", n |-> 0, s |-> "", items |-> <<>>]
Array(vs) == [tag |-> "Array", n |-> 0, s |-> "", items |-> vs]
\* one (key, value) entry of a Value::Map
Pair(k, v) == [tag |-> "Pair", n |-> 0, s |-> "", items |-> <<k, v>>]
Map(pairs) == [tag |-> "Map", n |-> 0, s |-> "", items |-> pairs]
\* an f64, held in tenths (3.0 is 30)
Double(tenths) == [tag |-> "Double", n |-> tenths, s |-> "", items |-> <<>>]
Boolean(b) == [tag |-> "Boolean", n |-> IF b THEN 1 ELSE 0, s |-> "", items |-> <<>>]

(* ------------------------- RedisResult --------------------------------- *)
NoResult == [status |-> "None", kind |-> "", detail |-> "", values |-> <<>>]
Ok(vs) == [status |-> "Ok", kind |-> "", detail |-> "", values |-> vs]
Err(kind, detail) == [status |-> "Err", kind |-> kind, detail |-> detail, values |-> <<>>]

TimedOut == Err("IoError", "TimedOut")
OddItems == Err("TypeError", "Response has odd number of items, and cannot be entered into a map")
NotMap == Err("TypeError", "Response couldn't be converted to map")
NotNumeric == Err("TypeError", "Response type not convertible to numeric.")
NotParsed == Err("TypeError", "Could not convert from string.")
NotBool == Err("TypeError", "Response type not bool compatible.")

(* --------------------- ExpectedReturnType ------------------------------ *)
ExpectedReturnType == {"Map", "Double", "Boolean"}
NoExpectedType == "None"

\* str::parse::<f64> on the bytes of a bulk string: the f64 in tenths, or -1
\* when the string is no number
ParseF64 ==
  [str \in {"0", "1", "1.5", "3.0", "abc"} |->
     CASE str = "0" -> 0
       [] str = "1" -> 10
       [] str = "1.5" -> 15
       [] str = "3.0" -> 30
       [] OTHER -> -1]

FromRedisValueF64(value) ==
  CASE value.tag = "Int" -> Ok(<<Double(10 * value.n)>>)
    [] value.tag = "BulkString" ->
         IF ParseF64[value.s] >= 0 THEN Ok(<<Double(ParseF64[value.s])>>) ELSE NotParsed
    [] value.tag = "Double" -> Ok(<<value>>)
    [] OTHER -> NotNumeric

FromRedisValueBool(value) ==
  CASE value.tag = "Nil" -> Ok(<<Boolean(FALSE)>>)
    [] value.tag = "Int" -> Ok(<<Boolean(value.n # 0)>>)
    [] value.tag = "BulkString" ->
         IF value.s = "1" THEN Ok(<<Boolean(TRUE)>>)
         ELSE IF value.s = "0" THEN Ok(<<Boolean(FALSE)>>)
         ELSE NotBool
    [] value.tag = "Boolean" -> Ok(<<value>>)
    [] value.tag = "Okay" -> Ok(<<Boolean(TRUE)>>)
    [] OTHER -> NotBool

\* ArrayToMap without the odd-length error: a trailing key is left out
ArrayToMapDropsLast(array) ==
  Ok(<<Map([i \in 1..(Len(array) \div 2) |-> Pair(array[2 * i - 1], array[2 * i])])>>)

\* the while-let loop of the Map arm: consecutive items become (key, value)
ArrayToMap(array) ==
  IF Len(array) % 2 = 1
  THEN OddItems
  ELSE Ok(<<Map([i \in 1..(Len(array) \div 2) |-> Pair(array[2 * i - 1], array[2 * i])])>>)

convert_to_expected_type(value, expected) ==
  IF expected = NoExpectedType
  THEN Ok(<<value>>)
  ELSE CASE expected = "Map" ->
              (CASE value.tag = "Nil" -> Ok(<<value>>)
                 [] value.tag = "Map" -> Ok(<<value>>)
                 [] value.tag = "Array" -> ArrayToMap(value.items)
                 [] OTHER -> NotMap)
         [] expected = "Double" -> FromRedisValueF64(value)
         [] expected = "Boolean" -> FromRedisValueBool(value)

(* ---------------------------- commands --------------------------------- *)
\* A redis::Cmd is its argument list, each argument a byte string.  The
\* names below are the byte strings of the match arms.
HGETALL == <<72, 71, 69, 84, 65, 76, 76>>
XREAD == <<88, 82, 69, 65, 68>>
INCRBYFLOAT == <<73, 78, 67, 82, 66, 89, 70, 76, 79, 65, 84>>
HINCRBYFLOAT == <<72>> \o INCRBYFLOAT
HEXISTS == <<72, 69, 88, 73, 83, 84, 83>>
EXPIRE == <<69, 88, 80, 73, 82, 69>>
EXPIREAT == EXPIRE \o <<65, 84>>
PEXPIRE == <<80>> \o EXPIRE
PEXPIREAT == <<80>> \o EXPIREAT

expected_type_for_cmd(cmd) ==
  IF Len(cmd) = 0 THEN NoExpectedType
  ELSE CASE cmd[1] \in {HGETALL, XREAD} -> "Map"
         [] cmd[1] \in {INCRBYFLOAT, HINCRBYFLOAT} -> "Double"
         [] cmd[1] \in {HEXISTS, EXPIRE, EXPIREAT, PEXPIRE, PEXPIREAT} -> "Boolean"
         [] OTHER -> NoExpectedType

(* ----------------------------- inputs ---------------------------------- *)
GET == <<71, 69, 84>>
HGET == <<72, 71, 69, 84>>
KeyArg == <<107>>

Min(a, b) == IF a < b THEN a ELSE b

\* ASCII lower case of a byte string, and the same with the first byte only
LowerCase(bytes) ==
  [i \in 1..Len(bytes) |-> IF bytes[i] >= 65 /\ bytes[i] <= 90 THEN bytes[i] + 32 ELSE bytes[i]]
UpperCase(bytes) ==
  [i \in 1..Len(bytes) |-> IF bytes[i] >= 97 /\ bytes[i] <= 122 THEN bytes[i] - 32 ELSE bytes[i]]
MixedCase(bytes) ==
  [i \in 1..Len(bytes) |-> IF i = 1 THEN LowerCase(bytes)[i] ELSE bytes[i]]

TypedNames ==
  {HGETALL, XREAD, INCRBYFLOAT, HINCRBYFLOAT, HEXISTS, EXPIRE, EXPIREAT, PEXPIRE, PEXPIREAT}
Names == TypedNames \cup {GET, HGET}
Tokens == Names \cup {LowerCase(t) : t \in Names} \cup {MixedCase(t) : t \in Names}

\* the commands a caller sends on their own: every token with a key, and
\* the command without arguments
Commands == {<<t, KeyArg>> : t \in Tokens} \cup {<<>>}
\* the commands a caller puts in a pipeline
PipelineCommands == {<<GET, KeyArg>>, <<HGETALL, KeyArg>>, <<EXPIRE, KeyArg>>}

SeqsUpTo(S, n) == UNION {[1..k -> S] : k \in 0..n}
Pipelines == SeqsUpTo(PipelineCommands, MaxPipeline)

K1 == BulkString("k1")
V1 == BulkString("v1")
K2 == BulkString("k2")
V2 == IntValue(2)
\* what a connection answers to a single command
CommandValues ==
  {Nil, IntValue(0), IntValue(1), BulkString("3.0"), BulkString("abc"), Okay,
   Array(<<K1, V1, K2, V2>>), Array(<<K1, V1, K2>>), Map(<<Pair(K1, V1)>>)}
\* what a connection answers to each command of a pipeline
PipelineValues == {IntValue(1), Array(<<K1, V1>>)}

(* ---------------------------- RoutingInfo ------------------------------ *)
NoRouting == [kind |-> "None", node |-> ""]
SingleNode(node) == [kind |-> "SingleNode", node |-> node]
MultiNode == [kind |-> "MultiNode", node |-> "AllMasters"]
Random == "Random"
\* Option<RoutingInfo> as a caller passes it
Routings == {NoRouting, SingleNode(Random), SingleNode("SpecificNode"), MultiNode}
\* what RoutingInfo::for_routable derives from a command
Derivations == {NoRouting, SingleNode("SpecificNode"), MultiNode, SingleNode(Random)}

(* ------------------------------ Client --------------------------------- *)
DEFAULT_RESPONSE_TIMEOUT == 250

NoClient == [internal_client |-> "None", request_timeout |-> 0]
NoCall ==
  [op |-> "None", cmds |-> <<>>, offset |-> 0, count |-> 0, routing |-> NoRouting,
   derived |-> NoRouting, expected_type |-> NoExpectedType, route |-> NoRouting]

\* ConnectionRequest: the two fields Client::new reads itself (milliseconds)
Requests == [cluster_mode_enabled : BOOLEAN, request_timeout : {0, 1}]

to_duration(time_in_millis, default) ==
  IF time_in_millis > 0 THEN time_in_millis ELSE default

\* ClientWrapper that ignores the flag
ClientWrapperStandalone(cluster_mode_enabled) == "Standalone"

ClientWrapper(cluster_mode_enabled) ==
  IF cluster_mode_enabled THEN "Cluster" ELSE "Standalone"

\* run_with_timeout that awaits the future and never looks at the deadline
run_with_timeout_unbounded(expired, future) == future

run_with_timeout(expired, future) ==
  IF expired THEN TimedOut ELSE future

\* CommandRoute that prefers the routing derived from the command
CommandRouteDerivedFirst(routing, derived) ==
  IF derived # NoRouting THEN derived
  ELSE IF routing # NoRouting THEN routing
  ELSE SingleNode(Random)

\* routing.or_else(for_routable).unwrap_or(SingleNode(Random))
CommandRoute(routing, derived) ==
  IF routing # NoRouting THEN routing
  ELSE IF derived # NoRouting THEN derived
  ELSE SingleNode(Random)

\* PipelineRoute that passes any routing of the caller on
PipelineRouteAsGiven(routing) ==
  IF routing # NoRouting THEN routing ELSE SingleNode(Random)

\* match routing { Some(SingleNode(route)) => route, _ => Random }
PipelineRoute(routing) ==
  IF routing.kind = "SingleNode" THEN routing ELSE SingleNode(Random)

\* ZipConvert that keeps the values beyond the last command, unconverted
ZipConvertKeepsExtra(values, cmds) ==
  [i \in 1..Len(values) |->
     convert_to_expected_type(values[i],
                              IF i <= Len(cmds) THEN expected_type_for_cmd(cmds[i])
                              ELSE NoExpectedType)]

\* values.zip(cmd_iter().map(expected_type_for_cmd)).map(convert)
ZipConvert(values, cmds) ==
  [i \in 1..Min(Len(values), Len(cmds)) |->
     convert_to_expected_type(values[i], expected_type_for_cmd(cmds[i]))]

\* Collect that leaves the failed conversions out and returns the rest
CollectSuccesses(results) ==
  LET kept == SelectSeq(results, LAMBDA r : r.status = "Ok")
  IN Ok([i \in 1..Len(kept) |-> kept[i].values[1]])

\* collect::<RedisResult<Vec<Value>>>(): the first error, or every value
Collect(results) ==
  IF \E i \in 1..Len(results) : results[i].status = "Err"
  THEN results[CHOOSE i \in 1..Len(results) :
                 /\ results[i].status = "Err"
                 /\ \A j \in 1..(i - 1) : results[j].status # "Err"]
  ELSE Ok([i \in 1..Len(results) |-> results[i].values[1]])

\* the async block of send_command once the connection has answered
CommandFuture(answer, expected_type) ==
  IF answer.status = "Ok"
  THEN convert_to_expected_type(answer.values[1], expected_type)
  ELSE answer

\* the async block of send_pipeline once the connection has answered
PipelineFuture(answer, cmds) ==
  IF answer.status = "Ok" THEN Collect(ZipConvert(answer.values, cmds)) ELSE answer

(* ------------------------------ state ---------------------------------- *)
\* request      the ConnectionRequest given to Client::new
\* client       the Client: internal_client (the variant held) and request_timeout
\* pc           "new" before construction, "failed" after a ConnectionError,
\*              "idle" between calls, "pending" while a call awaits, "done" when
\*              the call's future has resolved
\* call         the call in progress: its arguments, the expected type computed
\*              from the command and the route handed to the connection
\* reply        what the connection answered to the call (NoResult: nothing yet)
\* result       what the call resolved to
\* elapsed      milliseconds since the call started
\* abandoned    a timed-out call's request is still with the connection
\* errors_seen  some earlier call on this Client resolved to an error
Init ==
  /\ request \in Requests
  /\ client = NoClient
  /\ pc = "new"
  /\ call = NoCall
  /\ reply = NoResult
  /\ result = NoResult
  /\ elapsed = 0
  /\ abandoned = FALSE
  /\ errors_seen = FALSE

\* Client::new succeeds
New ==
  /\ pc = "new"
  /\ client' = [internal_client |-> ClientWrapper(request.cluster_mode_enabled),
                request_timeout |-> to_duration(request.request_timeout, DEFAULT_RESPONSE_TIMEOUT)]
  /\ pc' = "idle"
  /\ UNCHANGED <<request, call, reply, result, elapsed, abandoned, errors_seen>>

\* Client::new fails: the connection could not be created, or the creation
\* timed out
NewFails ==
  /\ pc = "new"
  /\ \E error \in {ClientWrapper(request.cluster_mode_enabled), "Timeout"} :
       result' = Err("ConnectionError", error)
  /\ pc' = "failed"
  /\ UNCHANGED <<request, client, call, reply, elapsed, abandoned, errors_seen>>

\* send_command up to the await on the connection
SendCommand ==
  /\ pc = "idle"
  /\ \E cmd \in Commands, routing \in Routings, derived \in Derivations :
       call' = [op |-> "send_command", cmds |-> <<cmd>>, offset |-> 0, count |-> 0,
                routing |-> routing,
                derived |-> IF client.internal_client = "Cluster" /\ routing = NoRouting
                            THEN derived ELSE NoRouting,
                expected_type |-> expected_type_for_cmd(cmd),
                route |-> IF client.internal_client = "Cluster"
                          THEN CommandRoute(routing, derived) ELSE NoRouting]
  /\ pc' = "pending"
  /\ elapsed' = 0
  /\ UNCHANGED <<request, client, reply, result, abandoned, errors_seen>>

\* send_pipeline up to the await on the connection
SendPipeline ==
  /\ pc = "idle"
  /\ \E pipeline \in Pipelines, offset \in 0..1, count \in 0..(MaxPipeline + 1),
        routing \in Routings :
       call' = [op |-> "send_pipeline", cmds |-> pipeline, offset |-> offset,
                count |-> count, routing |-> routing, derived |-> NoRouting,
                expected_type |-> NoExpectedType,
                route |-> IF client.internal_client = "Cluster"
                          THEN PipelineRoute(routing) ELSE NoRouting]
  /\ pc' = "pending"
  /\ elapsed' = 0
  /\ UNCHANGED <<request, client, reply, result, abandoned, errors_seen>>

\* time passes while the call awaits: up to the first millisecond, or up to
\* the deadline
Elapse ==
  /\ pc = "pending"
  /\ elapsed < client.request_timeout
  /\ elapsed' \in {t \in {1, client.request_timeout} : t > elapsed}
  /\ UNCHANGED <<request, client, pc, call, reply, result, abandoned, errors_seen>>

\* the connection answers a single command with a value
CommandReplies ==
  /\ pc = "pending"
  /\ call.op = "send_command"
  /\ \E value \in CommandValues : reply' = Ok(<<value>>)
  /\ result' = run_with_timeout(FALSE, CommandFuture(reply', call.expected_type))
  /\ pc' = "done"
  /\ UNCHANGED <<request, client, call, elapsed, abandoned, errors_seen>>

\* send_pipeline / route_pipeline of a connection: of the replies to the
\* packed pipeline, the count replies that follow the first offset ones
WindowReplies(offset, count) == [1..count -> PipelineValues]

\* the connection answers a pipeline with the values of its window
PipelineReplies ==
  /\ pc = "pending"
  /\ call.op = "send_pipeline"
  /\ \E values \in WindowReplies(call.offset, call.count) : reply' = Ok(values)
  /\ result' = run_with_timeout(FALSE, PipelineFuture(reply', call.cmds))
  /\ pc' = "done"
  /\ UNCHANGED <<request, client, call, elapsed, abandoned, errors_seen>>

\* the connection answers either call with an error
ConnectionFails ==
  /\ pc = "pending"
  /\ reply' = Err("ResponseError", "server error")
  /\ result' = run_with_timeout(FALSE,
                  IF call.op = "send_command"
                  THEN CommandFuture(reply', call.expected_type)
                  ELSE PipelineFuture(reply', call.cmds))
  /\ pc' = "done"
  /\ UNCHANGED <<request, client, call, elapsed, abandoned, errors_seen>>

\* DeadlineFires that also marks the Client's connection as unusable
DeadlineFiresPoisons ==
  /\ pc = "pending"
  /\ elapsed = client.request_timeout
  /\ result' = run_with_timeout(TRUE, reply)
  /\ abandoned' = TRUE
  /\ client' = [client EXCEPT !.internal_client = "None"]
  /\ pc' = "done"
  /\ UNCHANGED <<request, call, reply, elapsed, errors_seen>>

\* the deadline of tokio::time::timeout is reached before the connection
\* answered: the future is dropped, the request stays with the connection
DeadlineFires ==
  /\ pc = "pending"
  /\ elapsed = client.request_timeout
  /\ result' = run_with_timeout(TRUE, reply)
  /\ abandoned' = TRUE
  /\ pc' = "done"
  /\ UNCHANGED <<request, client, call, reply, elapsed, errors_seen>>

\* the caller takes the result; the Client is ready for the next call
Return ==
  /\ pc = "done"
  /\ errors_seen' = (errors_seen \/ result.status = "Err")
  /\ call' = NoCall
  /\ reply' = NoResult
  /\ result' = NoResult
  /\ elapsed' = 0
  /\ pc' = "idle"
  /\ UNCHANGED <<request, client, abandoned>>

\* the connection finishes a request whose call has already timed out
LateCompletion ==
  /\ abandoned
  /\ abandoned' = FALSE
  /\ UNCHANGED <<request, client, pc, call, reply, result, elapsed, errors_seen>>

Next ==
  \/ New
  \/ NewFails
  \/ SendCommand
  \/ SendPipeline
  \/ Elapse
  \/ CommandReplies
  \/ PipelineReplies
  \/ ConnectionFails
  \/ DeadlineFires
  \/ Return
  \/ LateCompletion

Spec == Init /\ [][Next]_vars

(* ------------- convert_to_expected_type on its own --------------------- *)
ArrayItems == {K1, V1, V2}
ConvertValues ==
  {Array(items) : items \in SeqsUpTo(ArrayItems, MaxArray)}
    \cup {Nil, IntValue(0), IntValue(1), BulkString("1"), BulkString("1.5"), BulkString("abc"),
          Okay, Double(15), Boolean(TRUE), Map(<<>>), Map(<<Pair(K1, V1), Pair(K2, V2)>>),
          Array(<<Array(<<K1>>), Nil>>)}

\* a raw value and an expected type, not yet converted
InitConvert ==
  /\ request \in {r \in Requests : ~r.cluster_mode_enabled /\ r.request_timeout = 0}
  /\ client = NoClient
  /\ pc = "convert"
  /\ \E expected \in ExpectedReturnType \cup {NoExpectedType} :
       call = [NoCall EXCEPT !.expected_type = expected]
  /\ \E value \in ConvertValues : reply = Ok(<<value>>)
  /\ result = NoResult
  /\ elapsed = 0
  /\ abandoned = FALSE
  /\ errors_seen = FALSE

Convert ==
  /\ pc = "convert"
  /\ result' = convert_to_expected_type(reply.values[1], call.expected_type)
  /\ pc' = "converted"
  /\ UNCHANGED <<request, client, call, reply, elapsed, abandoned, errors_seen>>

NextConvert == Convert

SpecConvert == InitConvert /\ [][NextConvert]_vars

(* ------------------------------ claims --------------------------------- *)
InCall == pc \in {"pending", "done"}
PipelineAnswered == pc = "done" /\ call.op = "send_pipeline" /\ reply.status = "Ok"

\* C1: a call (send_command or send_pipeline, standalone or cluster) that
\* resolves while the connection has not answered resolves, at the deadline,
\* to the timeout error and to nothing else.
C1_DeadlineGivesTimeout ==
  pc = "done" /\ reply = NoResult =>
    /\ result = Err("IoError", "TimedOut")
    /\ elapsed = client.request_timeout

C1_Witness ==
  /\ pc = "done"
  /\ call.op = "send_pipeline"
  /\ client.internal_client = "Cluster"
  /\ reply = NoResult
  /\ abandoned
  /\ result.status = "Err"

\* C2: once calls have ended in errors, the Client still holds the variant and
\* the request_timeout it was built with, and a call the connection answers
\* with a value resolves to the conversion of that value alone.
C2_ErrorsLeaveClientUsable ==
  errors_seen =>
    /\ client.internal_client = (IF request.cluster_mode_enabled THEN "Cluster" ELSE "Standalone")
    /\ client.request_timeout = (IF request.request_timeout > 0 THEN request.request_timeout ELSE 250)
    /\ pc = "done" /\ reply.status = "Ok" =>
         result = IF call.op = "send_command"
                  THEN convert_to_expected_type(reply.values[1], expected_type_for_cmd(call.cmds[1]))
                  ELSE Collect(ZipConvert(reply.values, call.cmds))

C2_Witness ==
  /\ errors_seen
  /\ abandoned
  /\ pc = "done"
  /\ call.op = "send_command"
  /\ call.expected_type = "Boolean"
  /\ reply = Ok(<<IntValue(1)>>)
  /\ result = Ok(<<Boolean(TRUE)>>)

\* C3: when the window lies within the pipeline's replies, so that the i-th
\* value returned is the reply of command offset + i, the result has one value
\* per value returned, each converted with the type of the command it answers.
C3_OwnCommandType ==
  PipelineAnswered /\ call.offset + call.count <= Len(call.cmds) =>
    result = Collect([i \in 1..Len(reply.values) |->
                        convert_to_expected_type(reply.values[i],
                                                 expected_type_for_cmd(call.cmds[call.offset + i]))])

\* C4: on a cluster, the route handed to the connection for a pipeline is a
\* single node: the caller's single node, or Random when the caller gave no
\* routing or a multi-node routing; the call reaches the connection either way.
C4_PipelineRouteSingle ==
  InCall /\ call.op = "send_pipeline" /\ client.internal_client = "Cluster" =>
    /\ call.route.kind = "SingleNode"
    /\ call.routing.kind = "SingleNode" => call.route = call.routing
    /\ call.routing.kind \in {"None", "MultiNode"} => call.route = SingleNode("Random")

C4_Witness ==
  /\ pc = "done"
  /\ call.op = "send_pipeline"
  /\ client.internal_client = "Cluster"
  /\ call.routing = MultiNode
  /\ call.route = SingleNode("Random")
  /\ result.status = "Ok"

\* C5: a pipeline's result is an error of kind TypeError, carrying no values,
\* if the conversion of any paired reply fails, and a list only if none fails.
C5_AllOrNothing ==
  PipelineAnswered =>
    LET n == Min(Len(reply.values), Len(call.cmds))
        failed(i) == convert_to_expected_type(reply.values[i],
                                              expected_type_for_cmd(call.cmds[i])).status = "Err"
    IN IF \E i \in 1..n : failed(i)
       THEN result.status = "Err" /\ result.kind = "TypeError" /\ result.values = <<>>
       ELSE result.status = "Ok"

C5_Witness ==
  /\ PipelineAnswered
  /\ Len(reply.values) = 2
  /\ Len(call.cmds) = 2
  /\ convert_to_expected_type(reply.values[1], expected_type_for_cmd(call.cmds[1])).status = "Ok"
  /\ expected_type_for_cmd(call.cmds[1]) # NoExpectedType
  /\ convert_to_expected_type(reply.values[2], expected_type_for_cmd(call.cmds[2])).status = "Err"
  /\ result.status = "Err"

\* C6: for expected type Map, Nil stays Nil, a Map stays as it is, an array
\* of even length becomes the Map of its consecutive (key, value) pairs in
\* order, an array of odd length is a TypeError, any other value a TypeError.
C6_MapConversion ==
  pc = "converted" /\ call.expected_type = "Map" =>
    LET value == reply.values[1]
    IN CASE value.tag = "Nil" -> result = Ok(<<Nil>>)
         [] value.tag = "Map" -> result = Ok(<<value>>)
         [] value.tag = "Array" /\ Len(value.items) % 2 = 0 ->
              /\ result.status = "Ok"
              /\ result.values[1].tag = "Map"
              /\ Len(result.values[1].items) * 2 = Len(value.items)
              /\ \A i \in 1..Len(result.values[1].items) :
                   result.values[1].items[i].items = <<value.items[2 * i - 1], value.items[2 * i]>>
         [] OTHER -> result.status = "Err" /\ result.kind = "TypeError"

C6_Witness ==
  /\ pc = "converted"
  /\ call.expected_type = "Map"
  /\ reply = Ok(<<Array(<<K1, V1, V2, K1>>)>>)
  /\ result = Ok(<<Map(<<Pair(K1, V1), Pair(V2, K1)>>)>>)

\* C7: the expected type of a command is that of its first argument in upper
\* case: Map for HGETALL and XREAD, Double for INCRBYFLOAT and HINCRBYFLOAT,
\* Boolean for HEXISTS, EXPIRE, EXPIREAT, PEXPIRE and PEXPIREAT, none otherwise.
C7_CaseInsensitive ==
  InCall /\ call.op = "send_command" =>
    LET cmd == call.cmds[1]
        name == IF Len(cmd) = 0 THEN <<>> ELSE UpperCase(cmd[1])
    IN call.expected_type =
         CASE name \in {HGETALL, XREAD} -> "Map"
           [] name \in {INCRBYFLOAT, HINCRBYFLOAT} -> "Double"
           [] name \in {HEXISTS, EXPIRE, EXPIREAT, PEXPIRE, PEXPIREAT} -> "Boolean"
           [] OTHER -> "None"

\* C8: a constructed Client holds the cluster variant exactly when the
\* request had cluster_mode_enabled, and no step of any call changes the
\* variant it holds.
C8_VariantFixed ==
  /\ [](pc \notin {"new", "failed"} =>
          client.internal_client = IF request.cluster_mode_enabled THEN "Cluster" ELSE "Standalone")
  /\ [][pc \notin {"new", "failed"} => client'.internal_client = client.internal_client]_vars

C8_Witness ==
  /\ pc = "idle"
  /\ errors_seen
  /\ request.cluster_mode_enabled
  /\ client.internal_client = "Cluster"

\* C9: on a cluster, send_command hands the connection the caller's routing
\* when there is one, else the routing derived from the command when there
\* is one, else the random single node; a standalone connection is handed no
\* route, whatever routing the caller gave.
C9_CommandRoutePrecedence ==
  InCall /\ call.op = "send_command" =>
    IF client.internal_client = "Cluster"
    THEN /\ call.routing # NoRouting => call.route = call.routing
         /\ call.routing = NoRouting /\ call.derived # NoRouting => call.route = call.derived
         /\ call.routing = NoRouting /\ call.derived = NoRouting =>
              call.route = SingleNode("Random")
    ELSE call.route = NoRouting

C9_Witness ==
  /\ pc = "done"
  /\ call.op = "send_command"
  /\ client.internal_client = "Cluster"
  /\ call.routing = NoRouting
  /\ call.derived = MultiNode
  /\ call.route = MultiNode

\* C10: the i-th value of a pipeline's result is the i-th value returned,
\* converted with the type of the pipeline's i-th command whatever the offset,
\* and a result has as many values as the shorter of the two lists.
C10_PairedFromFirstCommand ==
  PipelineAnswered /\ result.status = "Ok" =>
    /\ Len(result.values) = Min(Len(reply.values), Len(call.cmds))
    /\ \A i \in 1..Len(result.values) :
         Ok(<<result.values[i]>>) =
           convert_to_expected_type(reply.values[i], expected_type_for_cmd(call.cmds[i]))

C10_Witness ==
  /\ PipelineAnswered
  /\ call.offset = 1
  /\ Len(call.cmds) = 2
  /\ Len(reply.values) = 3
  /\ result.status = "Ok"
  /\ Len(result.values) = 2
  /\ result.values # SubSeq(reply.values, 1, 2)

====
